---- MODULE Spec2Model ----
(***************************************************************************)
(* Model of the math-shell calculator shells.                              *)
(*                                                                         *)
(*   prog = "index" : src/index.mjs (readline shell, no variables)         *)
(*   prog = "mash"  : src/unnamed/part_000, second program (lines 289-592, *)
(*                    vorpal shell with variables and ans)                 *)
(*                                                                         *)
(* An input line is a sequence of tokens; a line of text is the tokens     *)
(* separated by blanks.  Decimal values are modelled exactly on a window   *)
(* of integers plus NaN and the two infinities; a finite result outside    *)
(* the window, or one that is not an integer, is the value Beyond, and a   *)
(* line whose handling would have to store or print Beyond is not fed to   *)
(* the shell.  The sign of zero is not modelled.                           *)
(***************************************************************************)
EXTENDS Integers, Sequences, FiniteSets, TLC

\* ------------------------------------------------------------------------
\* Bounds of the model
\* ------------------------------------------------------------------------
MaxAbs == 512           \* integers -MaxAbs..MaxAbs are represented exactly
MaxLines == 2           \* input lines handled in one session

\* ------------------------------------------------------------------------
\* Values: Decimal instances, native numbers and other JavaScript values
\* ------------------------------------------------------------------------
Fin(n) == [k |-> "fin", n |-> n]
NaN == [k |-> "nan", n |-> 0]
Inf(s) == [k |-> "inf", n |-> s]
Undefined == [k |-> "undef", n |-> 0]
Beyond == [k |-> "beyond", n |-> 0]
\* a JavaScript value that is not a Decimal (a string, a boolean, an object)
NotDecimal == [k |-> "js", n |-> 0]
\* the native constants Math.PI and Math.E
MathPI == [k |-> "irr", n |-> 1]
MathE == [k |-> "irr", n |-> 2]
\* the angle pi * n / 180 produced by the degree conversion (n # 0)
Angle(n) == [k |-> "angle", n |-> n]

\* the integer 2^53 + d, for 0 <= d < 2^53
Big(d) == [k |-> "big", n |-> d]
\* the exact value of the literal 1e999
TenTo999 == [k |-> "huge", n |-> 0]

\* the native number (IEEE double, round to nearest, ties to even) that a
\* numeric literal of exact value val is read as: the integers of the window
\* are below 2^53 and exact; from 2^53 to 2^54 the doubles are the even
\* integers, and of two equally near ones the multiple of 4 has the even
\* significand; 1e999 is above the largest double
ToNumber(val) ==
    CASE val.k = "huge" -> Inf(1)
      [] val.k = "big" /\ val.n % 2 = 0 -> val
      [] val.k = "big" /\ (val.n - 1) % 4 = 0 -> Big(val.n - 1)
      [] val.k = "big" -> Big(val.n + 1)
      [] OTHER -> val

Window(n) == IF n >= -MaxAbs /\ n <= MaxAbs THEN Fin(n) ELSE Beyond

Abs(n) == IF n < 0 THEN -n ELSE n
Sign(n) == IF n < 0 THEN -1 ELSE IF n > 0 THEN 1 ELSE 0

isNaN(a) == a.k = "nan"
isZero(a) == a.k = "fin" /\ a.n = 0
isFin(a) == a.k = "fin"
isInf(a) == a.k = "inf"
\* a finite Decimal the model does not represent exactly
isOpaque(a) == a.k \in {"beyond", "irr", "angle", "big"}
\* the sign of a non-NaN, non-opaque Decimal
SignOf(a) == IF a.k = "inf" THEN a.n ELSE Sign(a.n)

\* ------------------------------------------------------------------------
\* decimal.js arithmetic (precision 20, rounding half-up, modulo mode 1)
\* ------------------------------------------------------------------------
neg(a) ==
    CASE a.k = "fin" -> Fin(-a.n)
      [] a.k = "inf" -> Inf(-a.n)
      [] a.k = "nan" -> NaN
      [] OTHER -> Beyond

add(a, b) ==
    CASE isNaN(a) \/ isNaN(b) -> NaN
      [] isInf(a) /\ isInf(b) -> IF a.n = b.n THEN a ELSE NaN
      [] isInf(a) -> a
      [] isInf(b) -> b
      [] isFin(a) /\ isFin(b) -> Window(a.n + b.n)
      [] OTHER -> Beyond

sub(a, b) == add(a, neg(b))

mul(a, b) ==
    CASE isNaN(a) \/ isNaN(b) -> NaN
      [] isInf(a) /\ isZero(b) -> NaN
      [] isZero(a) /\ isInf(b) -> NaN
      [] isOpaque(a) \/ isOpaque(b) -> Beyond
      [] isInf(a) \/ isInf(b) -> Inf(SignOf(a) * SignOf(b))
      [] OTHER -> Window(a.n * b.n)

\* a.div(b); the operator table never calls it with b zero
div(a, b) ==
    CASE isNaN(a) \/ isNaN(b) -> NaN
      [] isInf(a) /\ isInf(b) -> NaN
      [] isZero(a) /\ isZero(b) -> NaN
      [] isOpaque(a) \/ isOpaque(b) -> Beyond
      [] isInf(a) -> Inf(a.n * (IF SignOf(b) < 0 THEN -1 ELSE 1))
      [] isInf(b) -> Fin(0)
      [] isZero(b) -> Inf(SignOf(a))
      [] Abs(a.n) % Abs(b.n) = 0 ->
            Window(Sign(a.n) * Sign(b.n) * (Abs(a.n) \div Abs(b.n)))
      [] OTHER -> Beyond

\* a.mod(b): the remainder has the sign of the dividend
mod(a, b) ==
    CASE isNaN(a) \/ isInf(a) \/ isNaN(b) \/ isZero(b) -> NaN
      [] isInf(b) -> a
      [] isZero(a) -> a
      [] isOpaque(a) \/ isOpaque(b) -> Beyond
      [] OTHER -> Fin(Sign(a.n) * (Abs(a.n) % Abs(b.n)))

RECURSIVE PowAcc(_, _, _)
\* acc * base^e for e >= 0, cut off once it leaves the window
PowAcc(base, e, acc) ==
    IF e = 0 \/ Abs(acc) > MaxAbs THEN acc
    ELSE PowAcc(base, e - 1, acc * base)

isOdd(n) == Abs(n) % 2 = 1

\* a.pow(b): Math.pow decides whenever an operand is NaN, infinite or zero
pow(a, b) ==
    CASE isZero(b) -> Fin(1)
      [] isNaN(a) \/ isNaN(b) -> NaN
      [] isOpaque(a) \/ isOpaque(b) -> Beyond
      [] isInf(b) /\ isInf(a) -> IF b.n > 0 THEN Inf(1) ELSE Fin(0)
      [] isInf(b) /\ Abs(a.n) = 1 -> NaN
      [] isInf(b) -> IF (Abs(a.n) > 1) = (b.n > 0) THEN Inf(1) ELSE Fin(0)
      [] isInf(a) -> IF b.n < 0 THEN Fin(0)
                     ELSE IF a.n < 0 /\ isOdd(b.n) THEN Inf(-1) ELSE Inf(1)
      [] isZero(a) -> IF b.n > 0 THEN Fin(0) ELSE Inf(1)
      [] a.n = 1 -> Fin(1)
      [] a.n = -1 -> IF isOdd(b.n) THEN Fin(-1) ELSE Fin(1)
      [] b.n > 0 -> Window(PowAcc(a.n, b.n, 1))
      [] OTHER -> Beyond

\* ------------------------------------------------------------------------
\* decimal.js functions used by the function tables
\* ------------------------------------------------------------------------
DecimalSin(a) ==
    CASE isNaN(a) \/ isInf(a) -> NaN
      [] isZero(a) -> Fin(0)
      [] a.k = "angle" /\ a.n % 360 = 90 -> Fin(1)
      [] a.k = "angle" /\ a.n % 360 = 270 -> Fin(-1)
      [] OTHER -> Beyond

DecimalCos(a) ==
    CASE isNaN(a) \/ isInf(a) -> NaN
      [] isZero(a) -> Fin(1)
      [] a.k = "angle" /\ a.n % 360 = 0 -> Fin(1)
      [] a.k = "angle" /\ a.n % 360 = 180 -> Fin(-1)
      [] OTHER -> Beyond

DecimalTan(a) ==
    CASE isNaN(a) \/ isInf(a) -> NaN
      [] isZero(a) -> Fin(0)
      [] OTHER -> Beyond

DecimalAbs(a) ==
    CASE a.k = "fin" -> Fin(Abs(a.n))
      [] a.k = "inf" -> Inf(1)
      [] a.k = "nan" -> NaN
      [] OTHER -> Beyond

\* Decimal.log(a) with no base given is the logarithm to base 10
DecimalLog(a) ==
    CASE isNaN(a) -> NaN
      [] isInf(a) -> IF a.n > 0 THEN Inf(1) ELSE NaN
      [] isZero(a) -> Inf(-1)
      [] isFin(a) /\ a.n < 0 -> NaN
      [] isFin(a) /\ a.n = 1 -> Fin(0)
      [] isFin(a) /\ a.n = 10 -> Fin(1)
      [] isFin(a) /\ a.n = 100 -> Fin(2)
      [] OTHER -> Beyond

DecimalExp(a) ==
    CASE isNaN(a) -> NaN
      [] isInf(a) -> IF a.n > 0 THEN Inf(1) ELSE Fin(0)
      [] isZero(a) -> Fin(1)
      [] OTHER -> Beyond

DecimalSqrt(a) ==
    CASE isNaN(a) -> NaN
      [] isInf(a) -> IF a.n > 0 THEN Inf(1) ELSE NaN
      [] isFin(a) /\ a.n < 0 -> NaN
      [] isFin(a) /\ (\E r \in 0..a.n : r * r = a.n) ->
            Fin(CHOOSE r \in 0..a.n : r * r = a.n)
      [] OTHER -> Beyond

\* Decimal.acos(-1).mul(arg).div(180)
DegreesToRadians(arg) ==
    CASE isNaN(arg) -> NaN
      [] isInf(arg) -> arg
      [] isZero(arg) -> Fin(0)
      [] isFin(arg) -> Angle(arg.n)
      [] OTHER -> Beyond

\* toDeg of part_000: converts only when the mode is exactly 'deg'
toDeg(arg, mode) == IF mode = "deg" THEN DegreesToRadians(arg) ELSE arg

\* ------------------------------------------------------------------------
\* Tokens and syntax trees
\* ------------------------------------------------------------------------
\* A token: t is "num" (numeric literal whose exact value is v), "id"
\* (identifier s), "var" (the reference $s) or "p" (punctuator s).
Num(n) == [t |-> "num", s |-> "", v |-> Fin(n)]
NumOf(val) == [t |-> "num", s |-> "", v |-> val]
\* the literal 1e999
Huge == [t |-> "num", s |-> "1e999", v |-> TenTo999]
Id(name) == [t |-> "id", s |-> name, v |-> Undefined]
Var(name) == [t |-> "var", s |-> name, v |-> Undefined]
P(sym) == [t |-> "p", s |-> sym, v |-> Undefined]

\* Nodes have one shape: kids holds left and right (BinaryExpression), the
\* argument (UnaryExpression) or the callee followed by the arguments
\* (CallExpression).
NoNode ==
    [type |-> "undefined", operator |-> "", value |-> Undefined, name |-> "",
     isUnaryMinus |-> FALSE, kids |-> <<>>]
Literal(val) == [NoNode EXCEPT !.type = "Literal", !.value = val]
Identifier(name) == [NoNode EXCEPT !.type = "Identifier", !.name = name]
BinaryExpression(op, left, right) ==
    [NoNode EXCEPT !.type = "BinaryExpression", !.operator = op,
                   !.kids = <<left, right>>]
UnaryExpression(op, argument) ==
    [NoNode EXCEPT !.type = "UnaryExpression", !.operator = op,
                   !.kids = <<argument>>]
CallExpression(callee, arguments) ==
    [NoNode EXCEPT !.type = "CallExpression", !.kids = <<callee>> \o arguments]

Left(node) == node.kids[1]
Right(node) == node.kids[2]
Argument(node) == node.kids[1]
Callee(node) == node.kids[1]
Arguments(node) == Tail(node.kids)
\* node.arguments[0]
FirstArgument(node) ==
    IF Len(node.kids) >= 2 THEN node.kids[2] ELSE NoNode

ExpressionStatement(node) == [type |-> "ExpressionStatement", expression |-> node]
EmptyStatement == [type |-> "EmptyStatement", expression |-> NoNode]

\* ------------------------------------------------------------------------
\* esprima.parseScript on one line of tokens
\* ------------------------------------------------------------------------
Parsed(node, pos) == [ok |-> TRUE, node |-> node, pos |-> pos]
Unexpected(pos) == [ok |-> FALSE, node |-> NoNode, pos |-> pos]

IsP(toks, pos, sym) ==
    pos <= Len(toks) /\ toks[pos].t = "p" /\ toks[pos].s = sym

\* precedence of a binary operator token, 0 for any other token
\* a table that gives every binary operator the same precedence
BinaryPrecedenceFlat(tok) ==
    IF tok.t # "p" THEN 0
    ELSE IF tok.s \in {"+", "-", "*", "/", "%"} THEN 9
    ELSE 0

BinaryPrecedence(tok) ==
    IF tok.t # "p" THEN 0
    ELSE IF tok.s \in {"+", "-"} THEN 9
    ELSE IF tok.s \in {"*", "/", "%"} THEN 11
    ELSE 0

RECURSIVE ParseBinaryExpression(_, _, _)
RECURSIVE ParseBinaryRest(_, _, _, _)
RECURSIVE ParseExponentiationExpression(_, _)
RECURSIVE ParseUnaryExpression(_, _)
RECURSIVE ParseCallTail(_, _, _)

\* the ')' that closes the parenthesised expression e
ParseGroupEnd(toks, e) ==
    IF ~e.ok THEN e
    ELSE IF IsP(toks, e.pos, ")") THEN Parsed(e.node, e.pos + 1)
    ELSE Unexpected(e.pos)

\* a literal, an identifier or a parenthesised expression
ParsePrimaryExpression(toks, pos) ==
    IF pos > Len(toks) THEN Unexpected(pos)
    ELSE CASE toks[pos].t = "num" ->
                 Parsed(Literal(ToNumber(toks[pos].v)), pos + 1)
           [] toks[pos].t = "id" -> Parsed(Identifier(toks[pos].s), pos + 1)
           [] toks[pos].t = "var" -> Parsed(Identifier("$" \o toks[pos].s), pos + 1)
           [] toks[pos].t = "p" /\ toks[pos].s = "(" ->
                 ParseGroupEnd(toks, ParseBinaryExpression(toks, pos + 1, 1))
           [] OTHER -> Unexpected(pos)

RECURSIVE ParseArgumentsEnd(_, _, _, _)
\* what follows the argument a of a list that has the arguments args
\* before it: ')' closes the list, ',' brings the next argument
ParseArgumentsEnd(toks, callee, args, a) ==
    IF ~a.ok THEN a
    ELSE IF IsP(toks, a.pos, ")")
         THEN ParseCallTail(toks, CallExpression(callee, Append(args, a.node)),
                            a.pos + 1)
    ELSE IF IsP(toks, a.pos, ",")
         THEN ParseArgumentsEnd(toks, callee, Append(args, a.node),
                                ParseBinaryExpression(toks, a.pos + 1, 1))
    ELSE Unexpected(a.pos)

\* zero or more argument lists after a callee
ParseCallTail(toks, callee, pos) ==
    IF ~IsP(toks, pos, "(") THEN Parsed(callee, pos)
    ELSE IF IsP(toks, pos + 1, ")")
         THEN ParseCallTail(toks, CallExpression(callee, <<>>), pos + 2)
    ELSE ParseArgumentsEnd(toks, callee, <<>>,
                           ParseBinaryExpression(toks, pos + 1, 1))

ParseCallsAfter(toks, primary) ==
    IF ~primary.ok THEN primary
    ELSE ParseCallTail(toks, primary.node, primary.pos)

ParseLeftHandSideExpressionAllowCall(toks, pos) ==
    ParseCallsAfter(toks, ParsePrimaryExpression(toks, pos))

FinishUnary(op, a) ==
    IF ~a.ok THEN a ELSE Parsed(UnaryExpression(op, a.node), a.pos)

ParseUnaryExpression(toks, pos) ==
    IF IsP(toks, pos, "-") \/ IsP(toks, pos, "+")
    THEN FinishUnary(toks[pos].s, ParseUnaryExpression(toks, pos + 1))
    ELSE ParseLeftHandSideExpressionAllowCall(toks, pos)

FinishBinary(op, left, r) ==
    IF ~r.ok THEN r ELSE Parsed(BinaryExpression(op, left, r.node), r.pos)

\* '**' is right-associative and is not accepted after a unary expression
ParseExponentAfter(toks, u) ==
    IF ~u.ok THEN u
    ELSE IF u.node.type # "UnaryExpression" /\ IsP(toks, u.pos, "**")
    THEN FinishBinary("**", u.node, ParseExponentiationExpression(toks, u.pos + 1))
    ELSE u

ParseExponentiationExpression(toks, pos) ==
    ParseExponentAfter(toks, ParseUnaryExpression(toks, pos))

\* left op r, then the operators that follow
ParseBinaryThen(toks, op, left, r, minPrec) ==
    IF ~r.ok THEN r
    ELSE ParseBinaryRest(toks, BinaryExpression(op, left, r.node), r.pos, minPrec)

\* operators of precedence >= minPrec applied to left, left to right
ParseBinaryRest(toks, left, pos, minPrec) ==
    IF pos > Len(toks) THEN Parsed(left, pos)
    ELSE IF BinaryPrecedence(toks[pos]) = 0 \/ BinaryPrecedence(toks[pos]) < minPrec
    THEN Parsed(left, pos)
    ELSE ParseBinaryThen(toks, toks[pos].s, left,
             ParseBinaryExpression(toks, pos + 1, BinaryPrecedence(toks[pos]) + 1),
             minPrec)

ParseBinaryAfter(toks, l, minPrec) ==
    IF ~l.ok THEN l ELSE ParseBinaryRest(toks, l.node, l.pos, minPrec)

ParseBinaryExpression(toks, pos, minPrec) ==
    ParseBinaryAfter(toks, ParseExponentiationExpression(toks, pos), minPrec)

RECURSIVE ParseStatements(_, _, _)
\* the end of the expression statement e: ';' or the end of the input
ParseStatementEnd(toks, e, body) ==
    IF ~e.ok THEN [ok |-> FALSE, body |-> <<>>]
    ELSE IF e.pos > Len(toks)
    THEN [ok |-> TRUE, body |-> Append(body, ExpressionStatement(e.node))]
    ELSE IF IsP(toks, e.pos, ";")
    THEN ParseStatements(toks, e.pos + 1, Append(body, ExpressionStatement(e.node)))
    ELSE [ok |-> FALSE, body |-> <<>>]

\* the statements of the script from pos on, appended to body
ParseStatements(toks, pos, body) ==
    IF pos > Len(toks) THEN [ok |-> TRUE, body |-> body]
    ELSE IF IsP(toks, pos, ";")
    THEN ParseStatements(toks, pos + 1, Append(body, EmptyStatement))
    ELSE ParseStatementEnd(toks, ParseBinaryExpression(toks, pos, 1), body)

\* esprima.parseScript: the Program's body, or ok = FALSE when it throws
parseScript(toks) == ParseStatements(toks, 1, <<>>)

\* ------------------------------------------------------------------------
\* Operator and function tables
\* ------------------------------------------------------------------------
\* An object literal is its entries in source order; a later entry with the
\* same key replaces the earlier one.
RECURSIVE OwnProperty(_, _, _)
OwnProperty(entries, key, i) ==
    IF i = 0 THEN "undefined"
    ELSE IF entries[i][1] = key THEN entries[i][2]
    ELSE OwnProperty(entries, key, i - 1)

\* properties every object inherits from Object.prototype
ObjectPrototype ==
    {"constructor", "toString", "toLocaleString", "valueOf", "hasOwnProperty",
     "isPrototypeOf", "propertyIsEnumerable"}

\* object[key]: the own property, else the inherited one, else undefined
GetProperty(entries, key) ==
    LET own == OwnProperty(entries, key, Len(entries)) IN
    IF own # "undefined" THEN own
    ELSE IF key \in ObjectPrototype THEN "Object.prototype." \o key
    ELSE "undefined"

hasOwnProperty(entries, key) == OwnProperty(entries, key, Len(entries)) # "undefined"

IndexOPERATORS ==
    << <<"+", "add">>, <<"-", "sub">>, <<"*", "mul">>, <<"/", "div">>,
       <<"**", "pow">>, <<"%", "mod">>, <<"-", "neg">> >>

MashOPERATORS ==
    << <<"+", "add">>, <<"-", "sub">>, <<"*", "mul">>, <<"/", "div">>,
       <<"**", "pow">>, <<"%", "mod">>, <<"-unary", "neg">> >>

\* part_001 has the key '-' twice, like index.mjs
Part001OPERATORS ==
    << <<"+", "add">>, <<"-", "sub">>, <<"*", "mul">>, <<"/", "div">>,
       <<"**", "pow">>, <<"%", "mod">>, <<"-", "neg">> >>

OPERATORS(p) ==
    CASE p = "index" -> IndexOPERATORS
      [] p = "part_001" -> Part001OPERATORS
      [] OTHER -> MashOPERATORS

IndexFUNCTIONS ==
    << <<"sin", "sin">>, <<"cos", "cos">>, <<"tan", "tan">> >>

MashFUNCTIONS ==
    << <<"sin", "sinDeg">>, <<"cos", "cosDeg">>, <<"tan", "tanDeg">>,
       <<"abs", "abs">>, <<"log", "log">>, <<"exp", "exp">>, <<"sqrt", "sqrt">> >>

Part001FUNCTIONS ==
    << <<"sin", "sinDeg">>, <<"cos", "cosDeg">>, <<"tan", "tanDeg">>,
       <<"abs", "abs">>, <<"log", "log">>, <<"exp", "exp">>, <<"sqrt", "sqrt">> >>

FUNCTIONS(p) ==
    CASE p = "index" -> IndexFUNCTIONS
      [] p = "part_001" -> Part001FUNCTIONS
      [] OTHER -> MashFUNCTIONS

\* ------------------------------------------------------------------------
\* Outcomes of a computation: a value, or a thrown error
\* ------------------------------------------------------------------------
Returned(val) == [ok |-> TRUE, val |-> val, err |-> ""]
Thrown(msg) == [ok |-> FALSE, val |-> Undefined, err |-> msg]
\* the computation leaves the values the model represents
Unknown == [ok |-> FALSE, val |-> Beyond, err |-> "outside the window"]

DecimalError == "[DecimalError] Invalid argument: undefined"
NotAFunction == "is not a function"
ReadOfUndefined == "Cannot read properties of undefined"
DivisionByZero == "Division by zero error"
ModuloByZero == "Modulo by zero error"
UnsupportedFunction(func) == "Unsupported function: " \o func
UnsupportedType(type) == "Unsupported type: " \o type
NotANumber(operator) ==
    "Error: Result is Not A Number for expression with operator \""
        \o (IF operator = "" THEN "unknown" ELSE operator) \o "\""

\* the operator table without the zero tests of '/' and '%'
ApplyOperatorUnchecked(impl, a, b) ==
    CASE impl = "neg" -> Returned(neg(a))
      [] impl = "undefined" -> Thrown(NotAFunction)
      [] impl \in {"div", "mod"} /\ b = Undefined -> Thrown(ReadOfUndefined)
      [] b = Undefined -> Thrown(DecimalError)
      [] impl = "add" -> Returned(add(a, b))
      [] impl = "sub" -> Returned(sub(a, b))
      [] impl = "mul" -> Returned(mul(a, b))
      [] impl = "pow" -> Returned(pow(a, b))
      [] impl = "div" -> Returned(div(a, b))
      [] impl = "mod" -> Returned(mod(a, b))
      [] OTHER -> Thrown(NotAFunction)

\* the call impl(a, b) of an entry of the operator table; b is Undefined
\* when the caller passes one argument
ApplyOperator(impl, a, b) ==
    CASE impl = "neg" -> Returned(neg(a))
      [] impl = "undefined" -> Thrown(NotAFunction)
      [] impl \in {"div", "mod"} /\ b = Undefined -> Thrown(ReadOfUndefined)
      [] b = Undefined -> Thrown(DecimalError)
      [] impl = "add" -> Returned(add(a, b))
      [] impl = "sub" -> Returned(sub(a, b))
      [] impl = "mul" -> Returned(mul(a, b))
      [] impl = "pow" -> Returned(pow(a, b))
      [] impl = "div" ->
            IF isZero(b) THEN Thrown(DivisionByZero) ELSE Returned(div(a, b))
      [] impl = "mod" ->
            IF isZero(b) THEN Thrown(ModuloByZero) ELSE Returned(mod(a, b))
      [] OTHER -> Thrown(NotAFunction)

\* the call impl(a, mode) of a property of the function table
ApplyFunction(impl, a, mode) ==
    CASE impl = "sin" -> DecimalSin(a)
      [] impl = "cos" -> DecimalCos(a)
      [] impl = "tan" -> DecimalTan(a)
      [] impl = "sinDeg" -> DecimalSin(toDeg(a, mode))
      [] impl = "cosDeg" -> DecimalCos(toDeg(a, mode))
      [] impl = "tanDeg" -> DecimalTan(toDeg(a, mode))
      [] impl = "abs" -> DecimalAbs(a)
      [] impl = "log" -> DecimalLog(a)
      [] impl = "exp" -> DecimalExp(a)
      [] impl = "sqrt" -> DecimalSqrt(a)
      \* Object(a) returns the object a itself
      [] impl = "Object.prototype.constructor" -> a
      \* a string, a boolean or the table itself
      [] OTHER -> NotDecimal

\* ------------------------------------------------------------------------
\* evaluate
\* ------------------------------------------------------------------------
\* node.callee.name in a template string or as a property key
CalleeName(node) ==
    IF Callee(node).type = "Identifier" THEN Callee(node).name ELSE "undefined"

\* the check made on every node's result before it is returned
CheckResult(node, result) ==
    IF ~result.ok THEN result
    ELSE IF result.val = Beyond THEN Unknown
    ELSE IF result.val = NotDecimal THEN Thrown("result.isNaN " \o NotAFunction)
    ELSE IF isNaN(result.val) THEN Thrown(NotANumber(node.operator))
    ELSE result

\* the operator of the table applied to the evaluated operands
EvaluateBinary(p, node, l, r) ==
    IF ~l.ok THEN l
    ELSE IF ~r.ok THEN r
    ELSE CheckResult(node,
           ApplyOperator(GetProperty(OPERATORS(p), node.operator), l.val, r.val))

EvaluateUnary(p, node, a) ==
    IF ~a.ok THEN a
    ELSE CheckResult(node,
           ApplyOperator(
             GetProperty(OPERATORS(p),
                         IF p = "mash" /\ node.isUnaryMinus
                         THEN "-unary" ELSE node.operator),
             a.val, Undefined))

\* the function impl of the table applied to the evaluated argument
EvaluateCall(p, mode, node, impl, a) ==
    IF ~a.ok THEN a
    ELSE CheckResult(node,
           Returned(ApplyFunction(impl,
                      IF p = "index" /\ mode = "deg"
                      THEN DegreesToRadians(a.val) ELSE a.val,
                      mode)))

RECURSIVE evaluateNode(_, _, _)
evaluateNode(p, mode, node) ==
    CASE node.type = "Literal" -> CheckResult(node, Returned(node.value))
      [] node.type = "BinaryExpression" ->
            EvaluateBinary(p, node, evaluateNode(p, mode, Left(node)),
                           evaluateNode(p, mode, Right(node)))
      [] node.type = "UnaryExpression" ->
            EvaluateUnary(p, node, evaluateNode(p, mode, Argument(node)))
      [] node.type = "CallExpression" ->
            IF GetProperty(FUNCTIONS(p), CalleeName(node)) = "undefined"
            THEN Thrown(UnsupportedFunction(CalleeName(node)))
            ELSE EvaluateCall(p, mode, node,
                              GetProperty(FUNCTIONS(p), CalleeName(node)),
                              evaluateNode(p, mode, FirstArgument(node)))
      [] node.type = "undefined" -> Thrown(ReadOfUndefined)
      [] OTHER -> Thrown(UnsupportedType(node.type))

evaluate(p, mode, node) == evaluateNode(p, mode, node)

\* ------------------------------------------------------------------------
\* Lines, words and text
\* ------------------------------------------------------------------------
\* A line is a sequence of words separated by blanks; a word is the
\* sequence of tokens written without a blank between them.
RECURSIVE Flatten(_)
\* the tokens of a line
Flatten(line) ==
    IF line = <<>> THEN <<>> ELSE Head(line) \o Flatten(Tail(line))

\* the line whose words are the single tokens of toks
Spaced(toks) == [i \in 1..Len(toks) |-> <<toks[i]>>]

\* a lookup that keeps the letter case of the name
toLowerCaseIdentity(str) == str

\* String.prototype.toLowerCase on the names the model feeds
toLowerCase(str) ==
    CASE str = "X" -> "x"
      [] str = "ANS" -> "ans"
      [] str = "SET" -> "set"
      [] str = "RAD" -> "rad"
      [] str = "DEG" -> "deg"
      [] OTHER -> str

\* the text of a word that is one identifier or punctuator; "" for others
RECURSIVE WordText(_)
WordText(word) ==
    IF word = <<>> THEN ""
    ELSE (CASE Head(word).t = "var" -> "$" \o Head(word).s
            [] Head(word).t = "num" -> "#"
            [] OTHER -> Head(word).s) \o WordText(Tail(word))

\* new Decimal(word) for a word of a command
DecimalOfWord(word) ==
    CASE Len(word) = 1 /\ word[1] = Huge -> Returned(Beyond)
      [] Len(word) = 2 /\ word[2] = Huge -> Returned(Beyond)
      [] Len(word) = 1 /\ word[1].t = "num" -> Returned(word[1].v)
      [] Len(word) = 2 /\ word[1] = P("-") /\ word[2].t = "num" ->
            Returned(neg(word[2].v))
      [] word = <<Id("Infinity")>> -> Returned(Inf(1))
      [] word = <<P("-"), Id("Infinity")>> -> Returned(Inf(-1))
      [] word = <<Id("NaN")>> -> Returned(NaN)
      [] OTHER -> Thrown("[DecimalError] Invalid argument: " \o WordText(word))

\* value.toString() as the tokens of the text it produces
toString(val) ==
    CASE val.k = "fin" /\ val.n >= 0 -> <<Num(val.n)>>
      [] val.k = "fin" -> <<P("-"), Num(-val.n)>>
      [] val.k = "inf" /\ val.n > 0 -> <<Id("Infinity")>>
      [] val.k = "inf" -> <<P("-"), Id("Infinity")>>
      [] val.k = "nan" -> <<Id("NaN")>>
      [] OTHER -> <<NumOf(val)>>

\* ------------------------------------------------------------------------
\* parseExpression
\* ------------------------------------------------------------------------
\* front \o the replaced rest, unless the rest threw
Prepend(front, rest) ==
    IF ~rest.ok THEN rest ELSE [rest EXCEPT !.toks = front \o rest.toks]

RECURSIVE ReplaceVariables(_, _, _)
\* expression.replace(/\$(\w+)/g, ...): the tokens from i on with every
\* reference replaced by the text of its value; the callback throws at the
\* first name that is not an own property of vars
ReplaceVariables(toks, i, vs) ==
    IF i > Len(toks) THEN [ok |-> TRUE, toks |-> <<>>, err |-> ""]
    ELSE IF toks[i].t # "var"
    THEN Prepend(<<toks[i]>>, ReplaceVariables(toks, i + 1, vs))
    ELSE IF toLowerCase(toks[i].s) \in DOMAIN vs
    THEN Prepend(toString(vs[toLowerCase(toks[i].s)]),
                 ReplaceVariables(toks, i + 1, vs))
    ELSE [ok |-> FALSE, toks |-> <<>>,
          err |-> "Undefined variable: " \o toks[i].s]

RECURSIVE markUnaryMinus(_)
\* the tree with the isUnaryMinus marks markUnaryMinus(node) sets
markUnaryMinus(node) ==
    IF node.type = "BinaryExpression"
    THEN [node EXCEPT !.kids = <<markUnaryMinus(Left(node)),
                                 markUnaryMinus(Right(node))>>]
    ELSE IF node.type = "UnaryExpression" /\ node.operator = "-"
    THEN [node EXCEPT !.isUnaryMinus = TRUE]
    ELSE node

\* body[0].expression; undefined when there is no such statement
FirstExpression(body) ==
    IF body = <<>> THEN NoNode ELSE body[1].expression

SyntaxError(msg) == "Syntax Error: " \o msg

\* the try block of parseExpression in index.mjs and in part_001, given what
\* parseScript did
IndexParsed(text, parsed) ==
    IF parsed.ok
    THEN [ok |-> TRUE, body |-> parsed.body, text |-> text, err |-> ""]
    ELSE [ok |-> FALSE, body |-> <<>>, text |-> text,
          err |-> SyntaxError("Unexpected token")]

\* the try block of parseExpression in part_000, given what parseScript did
MashParsed(text, parsed) ==
    IF ~parsed.ok
    THEN [ok |-> FALSE, body |-> <<>>, text |-> text,
          err |-> SyntaxError("Unexpected token")]
    ELSE IF FirstExpression(parsed.body) = NoNode
    THEN [ok |-> FALSE, body |-> <<>>, text |-> text,
          err |-> SyntaxError(ReadOfUndefined)]
    ELSE [ok |-> TRUE,
          body |-> [parsed.body EXCEPT ![1].expression = markUnaryMinus(@)],
          text |-> text, err |-> ""]

\* the rest of parseExpression in part_000 after the replacement
MashReplaced(toks, replaced) ==
    IF ~replaced.ok
    THEN [ok |-> FALSE, body |-> <<>>, text |-> toks, err |-> replaced.err]
    ELSE MashParsed(replaced.toks, parseScript(replaced.toks))

\* parseExpression: [ok, body, text, err]; text is the expression after the
\* replacement of the variables
parseExpression(p, toks, vs) ==
    IF p \in {"index", "part_001"} THEN IndexParsed(toks, parseScript(toks))
    ELSE MashReplaced(toks, ReplaceVariables(toks, 1, vs))

\* the evaluation outcome together with the tree and the text
Evaluated(node, text, result) ==
    [ok |-> result.ok, val |-> result.val, err |-> result.err,
     node |-> node, text |-> text]

\* .body[0].expression of the parsed script, then evaluate
EvaluateParsed(p, mode, parsed) ==
    IF ~parsed.ok
    THEN Evaluated(NoNode, parsed.text, Thrown(parsed.err))
    ELSE IF parsed.body = <<>>
    THEN Evaluated(NoNode, parsed.text, Thrown(ReadOfUndefined))
    ELSE Evaluated(FirstExpression(parsed.body), parsed.text,
                   evaluate(p, mode, FirstExpression(parsed.body)))

\* parse, take body[0].expression and evaluate it: [ok, val, err, node, text]
ParseAndEvaluate(p, mode, toks, vs) ==
    EvaluateParsed(p, mode, parseExpression(p, toks, vs))

\* ------------------------------------------------------------------------
\* Session state
\* ------------------------------------------------------------------------
VARIABLES
    prog,          \* which shell runs: "index", "mash" (part_000) or "part_001"
    phase,         \* "boot" (before processArgs), "shell", "exited", "crashed"
    exitCode,      \* the status passed to process.exit, -1 while running
    angleMode,     \* this.angleMode
    commandMode,   \* this.commandMode
    vars,          \* this.vars: a function from the own keys to their values
    lines,         \* number of input lines handled so far
    last           \* what the handling of the last input did

allVars == <<prog, phase, exitCode, angleMode, commandMode, vars, lines, last>>

Session == [angleMode |-> angleMode, commandMode |-> commandMode, vars |-> vars]

\* the record of one handled input: the handler that ran, its input line,
\* the expression text after the replacement of variables, the tree that was
\* evaluated, the result printed (Undefined when none was), the message
\* written to console.error ("" when none was), whether an exception left
\* the handler, how often its callback was invoked, the session before
Handled(handler, line, text, node, printed, error, uncaught, callbacks) ==
    [handler |-> handler, line |-> line, text |-> text, node |-> node,
     printed |-> printed, error |-> error, uncaught |-> uncaught,
     callbacks |-> callbacks, pre |-> Session]

NoVars == [name \in {} |-> Undefined]

\* the constructor of part_000; config.angleMode is any string or undefined
MashConstructor(configAngleMode) ==
    [angleMode |-> IF configAngleMode = "rad" THEN "rad" ELSE "deg",
     commandMode |-> FALSE,
     vars |-> [name \in {"pi", "e", "ans"} |->
                 CASE name = "pi" -> MathPI
                   [] name = "e" -> MathE
                   [] OTHER -> Fin(0)]]

\* the constructor of index.mjs
IndexConstructor ==
    [angleMode |-> "deg", commandMode |-> FALSE, vars |-> NoVars]

\* the constructor of part_001: the same angle mode, no ans
Part001Constructor(configAngleMode) ==
    [angleMode |-> IF configAngleMode = "rad" THEN "rad" ELSE "deg",
     commandMode |-> FALSE,
     vars |-> [name \in {"pi", "e"} |-> IF name = "pi" THEN MathPI ELSE MathE]]

ConfigAngleModes == {"deg", "rad", "ran", "undefined"}

Init ==
    /\ prog \in {"index", "mash", "part_001"}
    /\ \E cfg \in ConfigAngleModes :
          LET shell == CASE prog = "index" -> IndexConstructor
                         [] prog = "part_001" -> Part001Constructor(cfg)
                         [] OTHER -> MashConstructor(cfg)
          IN /\ angleMode = shell.angleMode
             /\ commandMode = shell.commandMode
             /\ vars = shell.vars
    /\ phase = IF prog = "index" THEN "shell" ELSE "boot"
    /\ exitCode = -1
    /\ lines = 0
    /\ last = [handler |-> "none", line |-> <<>>, text |-> <<>>, node |-> NoNode,
               printed |-> Undefined, error |-> "", uncaught |-> FALSE,
               callbacks |-> 0,
               pre |-> [angleMode |-> angleMode, commandMode |-> commandMode,
                        vars |-> vars]]

\* this.vars[name] = val
SetVar(vs, name, val) ==
    [n \in DOMAIN vs \cup {name} |-> IF n = name THEN val ELSE vs[n]]

\* ------------------------------------------------------------------------
\* part_000: the command handlers of the vorpal shell
\* ------------------------------------------------------------------------
\* command.split(' ').filter(Boolean)
RECURSIVE NonEmptyWords(_)
NonEmptyWords(words) ==
    IF words = <<>> THEN <<>>
    ELSE IF Head(words) = <<>> THEN NonEmptyWords(Tail(words))
    ELSE <<Head(words)>> \o NonEmptyWords(Tail(words))

\* expression.startsWith(':')
StartsWithColon(line) == line # <<>> /\ Head(line) # <<>> /\ Head(line)[1] = P(":")

\* expression.slice(1), for a line that starts with a character token
SliceOne(line) == <<Tail(Head(line))>> \o Tail(line)

\* the effect of a handler on the session and what it reports
Effect(mode, vs, error, uncaught, callbacks) ==
    [angleMode |-> mode, vars |-> vs, error |-> error, uncaught |-> uncaught,
     callbacks |-> callbacks]

\* executeCommand of part_000 on the words of command
MashExecuteCommand(command, mode, vs) ==
    LET commandArr == NonEmptyWords(command) IN
    IF commandArr = <<>>
    THEN Effect(mode, vs, ReadOfUndefined, TRUE, 0)
    ELSE LET verb == toLowerCase(WordText(commandArr[1])) IN
      CASE verb = "set" ->
             IF Len(commandArr) < 2
             THEN Effect(mode, vs, ReadOfUndefined, TRUE, 0)
             ELSE Effect(toLowerCase(WordText(commandArr[2])), vs, "", FALSE, 1)
        [] verb = "var" ->
             IF Len(commandArr) = 4 /\ commandArr[3] = <<P("=")>>
             THEN LET varName == toLowerCase(WordText(commandArr[2]))
                      val == DecimalOfWord(commandArr[4])
                  IN IF val.ok
                     THEN Effect(mode, SetVar(vs, varName, val.val), "", FALSE, 1)
                     ELSE Effect(mode, vs, val.err, TRUE, 0)
             ELSE Effect(mode, vs,
                         "Invalid var command. Usage: var <name> = <value>",
                         FALSE, 1)
        [] OTHER ->
             Effect(mode, vs, "Unknown command: " \o WordText(commandArr[1]),
                    FALSE, 1)

\* an exception that leaves a handler: the shell library either reports it
\* and goes on, or the process dies
AfterHandler(uncaught) ==
    IF uncaught THEN {"shell", "crashed"} ELSE {"shell"}

\* the session is accepting input lines
Accepting == phase = "shell" /\ lines < MaxLines

\* 'ch': toggle command mode
MashCh ==
    /\ prog = "mash" /\ Accepting
    /\ commandMode' = ~commandMode
    /\ lines' = lines + 1
    /\ last' = Handled("ch", <<<<Id("ch")>>>>, <<>>, NoNode, Undefined, "", FALSE, 1)
    /\ UNCHANGED <<prog, phase, exitCode, angleMode, vars>>

\* 'cls': clear the screen
MashCls ==
    /\ prog = "mash" /\ Accepting
    /\ lines' = lines + 1
    /\ last' = Handled("cls", <<<<Id("cls")>>>>, <<>>, NoNode, Undefined, "", FALSE, 1)
    /\ UNCHANGED <<prog, phase, exitCode, angleMode, commandMode, vars>>

\* 'exit'
MashExit ==
    /\ prog = "mash" /\ Accepting
    /\ phase' = "exited"
    /\ exitCode' = 0
    /\ lines' = lines + 1
    /\ last' = Handled("exit", <<<<Id("exit")>>>>, <<>>, NoNode, Undefined, "", FALSE, 0)
    /\ UNCHANGED <<prog, angleMode, commandMode, vars>>

\* 'set <mode>' without the test of the command mode
MashSetUnguarded(mode) ==
    /\ prog = "mash" /\ Accepting
    /\ angleMode' = toLowerCase(mode)
    /\ last' = Handled("set", <<<<Id("set")>>, <<Id(mode)>>>>, <<>>, NoNode,
                       Undefined, "", FALSE, 1)
    /\ lines' = lines + 1
    /\ UNCHANGED <<prog, phase, exitCode, commandMode, vars>>

\* 'set <mode>' with args.mode = mode
MashSet(mode) ==
    /\ prog = "mash" /\ Accepting
    /\ IF ~commandMode
       THEN /\ angleMode' = angleMode
            /\ last' = Handled("set", <<<<Id("set")>>, <<Id(mode)>>>>, <<>>, NoNode,
                         Undefined,
                         "Error: set command can only be used in command mode",
                         FALSE, 1)
       ELSE /\ angleMode' = toLowerCase(mode)
            /\ last' = Handled("set", <<<<Id("set")>>, <<Id(mode)>>>>, <<>>, NoNode,
                         Undefined, "", FALSE, 1)
    /\ lines' = lines + 1
    /\ UNCHANGED <<prog, phase, exitCode, commandMode, vars>>

\* 'var <name> = <value>' with args.name = name and args.value = value
MashVar(name, value) ==
    /\ prog = "mash" /\ Accepting
    /\ LET line == <<<<Id("var")>>, <<Id(name)>>, <<P("=")>>, value>>
           val == DecimalOfWord(value)
       IN IF ~commandMode
          THEN /\ vars' = vars
               /\ phase' = phase
               /\ last' = Handled("var", line, <<>>, NoNode, Undefined,
                            "Error: var command can only be used in command mode",
                            FALSE, 1)
          ELSE IF val.ok
          THEN /\ vars' = SetVar(vars, toLowerCase(name), val.val)
               /\ phase' = phase
               /\ last' = Handled("var", line, <<>>, NoNode, Undefined, "", FALSE, 1)
          ELSE /\ vars' = vars
               /\ phase' \in AfterHandler(TRUE)
               /\ last' = Handled("var", line, <<>>, NoNode, Undefined, val.err,
                                  TRUE, 0)
    /\ lines' = lines + 1
    /\ UNCHANGED <<prog, exitCode, angleMode, commandMode>>

\* the try block without the assignment of ans
MashEvaluatedStale(handler, line, res, callbacks) ==
    /\ res.val # Beyond
    /\ vars' = vars
    /\ IF res.ok
       THEN last' = Handled(handler, line, res.text, res.node,
                            res.val, "", FALSE, callbacks)
       ELSE last' = Handled(handler, line, res.text, res.node,
                            Undefined, "Error: " \o res.err, FALSE, callbacks)

\* the try block with a catch that also resets ans
MashEvaluatedReset(handler, line, res, callbacks) ==
    /\ res.val # Beyond
    /\ IF res.ok
       THEN /\ vars' = SetVar(vars, "ans", res.val)
            /\ last' = Handled(handler, line, res.text, res.node,
                               res.val, "", FALSE, callbacks)
       ELSE /\ vars' = SetVar(vars, "ans", Fin(0))
            /\ last' = Handled(handler, line, res.text, res.node,
                               Undefined, "Error: " \o res.err, FALSE, callbacks)

\* the try block of evaluateExpression and evaluateFromArgs, given what
\* parsing and evaluating did: ans is assigned and the result printed, or
\* the error is reported
MashEvaluated(handler, line, res, callbacks) ==
    /\ res.val # Beyond
    /\ IF res.ok
       THEN /\ vars' = SetVar(vars, "ans", res.val)
            /\ last' = Handled(handler, line, res.text, res.node,
                               res.val, "", FALSE, callbacks)
       ELSE /\ vars' = vars
            /\ last' = Handled(handler, line, res.text, res.node,
                               Undefined, "Error: " \o res.err, FALSE, callbacks)

\* the session after executeCommand had the effect eff
MashCommanded(line, eff) ==
    /\ angleMode' = eff.angleMode
    /\ vars' = eff.vars
    /\ phase' \in AfterHandler(eff.uncaught)
    /\ last' = Handled("command", line, <<>>, NoNode, Undefined,
                       eff.error, eff.uncaught, eff.callbacks)

\* the catch-all command without the test of the command mode
MashCatchAlwaysEvaluates(line) ==
    /\ prog = "mash" /\ Accepting
    /\ lines' = lines + 1
    /\ IF line = <<>>
       THEN /\ last' = Handled("catch", line, <<>>, NoNode, Undefined, "", FALSE, 1)
            /\ UNCHANGED <<phase, angleMode, vars>>
       ELSE IF StartsWithColon(line)
       THEN MashCommanded(line, MashExecuteCommand(SliceOne(line), angleMode, vars))
       ELSE /\ MashEvaluated("expression", line,
                      ParseAndEvaluate("mash", angleMode, Flatten(line), vars), 1)
            /\ UNCHANGED <<phase, angleMode>>
    /\ UNCHANGED <<prog, exitCode, commandMode>>

\* the catch-all command with args.expression = the words of line, and
\* evaluateExpression
MashCatch(line) ==
    /\ prog = "mash" /\ Accepting
    /\ lines' = lines + 1
    /\ IF line = <<>>
       THEN /\ last' = Handled("catch", line, <<>>, NoNode, Undefined, "", FALSE, 1)
            /\ UNCHANGED <<phase, angleMode, vars>>
       ELSE IF commandMode \/ StartsWithColon(line)
       THEN MashCommanded(line,
                MashExecuteCommand(IF commandMode THEN line ELSE SliceOne(line),
                                   angleMode, vars))
       ELSE /\ MashEvaluated("expression", line,
                      ParseAndEvaluate("mash", angleMode, Flatten(line), vars), 1)
            /\ UNCHANGED <<phase, angleMode>>
    /\ UNCHANGED <<prog, exitCode, commandMode>>

\* processArgs whose one-shot path always exits with status 0
MashProcessArgsExitZero(flags, line) ==
    /\ prog = "mash" /\ phase = "boot"
    /\ LET mode == IF flags = <<>> THEN angleMode
                   ELSE IF flags[Len(flags)] = "--rad" THEN "rad" ELSE "deg"
       IN /\ angleMode' = mode
          /\ IF line = <<>>
             THEN /\ phase' = "shell"
                  /\ UNCHANGED <<exitCode, vars, last>>
             ELSE /\ MashEvaluated("args", line,
                        ParseAndEvaluate("mash", mode, Flatten(line), vars), 0)
                  /\ phase' = "exited"
                  /\ exitCode' = 0
    /\ UNCHANGED <<prog, commandMode, lines>>

\* processArgs and evaluateFromArgs: flags are the --rad/--deg arguments in
\* order, line the other arguments
MashProcessArgs(flags, line) ==
    /\ prog = "mash" /\ phase = "boot"
    /\ LET mode == IF flags = <<>> THEN angleMode
                   ELSE IF flags[Len(flags)] = "--rad" THEN "rad" ELSE "deg"
       IN /\ angleMode' = mode
          /\ IF line = <<>>
             THEN /\ phase' = "shell"
                  /\ UNCHANGED <<exitCode, vars, last>>
             ELSE /\ MashEvaluated("args", line,
                        ParseAndEvaluate("mash", mode, Flatten(line), vars), 0)
                  /\ phase' = "exited"
                  /\ exitCode' = IF last'.error = "" THEN 0 ELSE 1
    /\ UNCHANGED <<prog, commandMode, lines>>

\* ------------------------------------------------------------------------
\* part_001: the vorpal shell without ans
\* ------------------------------------------------------------------------
\* executeCommand of part_001 on the words of command: nothing is
\* lower-cased and a missing word is the string "undefined" in the message
Part001ExecuteCommand(command, mode, vs) ==
    LET commandArr == NonEmptyWords(command)
        first == IF commandArr = <<>> THEN "undefined" ELSE WordText(commandArr[1])
        second == IF Len(commandArr) < 2 THEN "undefined"
                  ELSE WordText(commandArr[2])
    IN IF first # "set"
       THEN Effect(mode, vs, "Unknown command: " \o first, FALSE, 1)
       ELSE IF second \in {"rad", "deg"}
       THEN Effect(second, vs, "", FALSE, 1)
       ELSE Effect(mode, vs, "Unknown command: " \o second, FALSE, 1)

Part001Ch ==
    /\ prog = "part_001" /\ Accepting
    /\ commandMode' = ~commandMode
    /\ lines' = lines + 1
    /\ last' = Handled("ch", <<<<Id("ch")>>>>, <<>>, NoNode, Undefined, "", FALSE, 1)
    /\ UNCHANGED <<prog, phase, exitCode, angleMode, vars>>

Part001Cls ==
    /\ prog = "part_001" /\ Accepting
    /\ lines' = lines + 1
    /\ last' = Handled("cls", <<<<Id("cls")>>>>, <<>>, NoNode, Undefined, "", FALSE, 1)
    /\ UNCHANGED <<prog, phase, exitCode, angleMode, commandMode, vars>>

Part001Exit ==
    /\ prog = "part_001" /\ Accepting
    /\ phase' = "exited"
    /\ exitCode' = 0
    /\ lines' = lines + 1
    /\ last' = Handled("exit", <<<<Id("exit")>>>>, <<>>, NoNode, Undefined, "", FALSE, 0)
    /\ UNCHANGED <<prog, angleMode, commandMode, vars>>

\* 'set <mode>' with args.mode = mode: only 'rad' and 'deg' are assigned
Part001Set(mode) ==
    /\ prog = "part_001" /\ Accepting
    /\ angleMode' = IF commandMode /\ mode \in {"rad", "deg"} THEN mode ELSE angleMode
    /\ last' = Handled("set", <<<<Id("set")>>, <<Id(mode)>>>>, <<>>, NoNode, Undefined,
                 IF ~commandMode
                 THEN "Error: set command can only be used in command mode"
                 ELSE IF mode \in {"rad", "deg"} THEN ""
                 ELSE "Unknown mode: " \o mode,
                 FALSE, 1)
    /\ lines' = lines + 1
    /\ UNCHANGED <<prog, phase, exitCode, commandMode, vars>>

\* the try blocks of the catch-all command and of processArgs, given what
\* parsing and evaluating did: the result is printed, or the error reported
Part001Evaluated(handler, line, res, callbacks) ==
    /\ res.val # Beyond
    /\ last' = Handled(handler, line, res.text, res.node,
                       IF res.ok THEN res.val ELSE Undefined,
                       IF res.ok THEN "" ELSE "Error: " \o res.err,
                       FALSE, callbacks)

\* the catch-all command with args.expression = the words of line
Part001Catch(line) ==
    /\ prog = "part_001" /\ Accepting
    /\ lines' = lines + 1
    /\ IF line = <<>>
       THEN /\ last' = Handled("catch", line, <<>>, NoNode, Undefined, "", FALSE, 1)
            /\ UNCHANGED <<phase, angleMode, vars>>
       ELSE IF commandMode \/ StartsWithColon(line)
       THEN MashCommanded(line,
                Part001ExecuteCommand(IF commandMode THEN line ELSE SliceOne(line),
                                      angleMode, vars))
       ELSE /\ Part001Evaluated("expression", line,
                      ParseAndEvaluate("part_001", angleMode, Flatten(line), vars), 1)
            /\ UNCHANGED <<phase, angleMode, vars>>
    /\ UNCHANGED <<prog, exitCode, commandMode>>

\* processArgs of part_001: flags are the --rad/--deg arguments in order,
\* line the other arguments
Part001ProcessArgs(flags, line) ==
    /\ prog = "part_001" /\ phase = "boot"
    /\ LET mode == IF flags = <<>> THEN angleMode
                   ELSE IF flags[Len(flags)] = "--rad" THEN "rad" ELSE "deg"
       IN /\ angleMode' = mode
          /\ IF line = <<>>
             THEN /\ phase' = "shell"
                  /\ UNCHANGED <<exitCode, last>>
             ELSE /\ Part001Evaluated("args", line,
                        ParseAndEvaluate("part_001", mode, Flatten(line), vars), 0)
                  /\ phase' = "exited"
                  /\ exitCode' = IF last'.error = "" THEN 0 ELSE 1
    /\ UNCHANGED <<prog, commandMode, lines, vars>>

\* ------------------------------------------------------------------------
\* index.mjs: the 'line' handler of the readline shell
\* ------------------------------------------------------------------------
\* executeCommand of index.mjs on the words of command
IndexExecuteCommand(command, mode) ==
    LET lower == [i \in 1..Len(command) |-> toLowerCase(WordText(command[i]))] IN
    IF lower = <<"set", "ran">> THEN "rad"
    ELSE IF lower = <<"set", "deg">> THEN "deg"
    ELSE mode

\* the empty line toggles command mode
IndexToggle ==
    /\ prog = "index" /\ Accepting
    /\ commandMode' = ~commandMode
    /\ lines' = lines + 1
    /\ last' = Handled("toggle", <<>>, <<>>, NoNode, Undefined, "", FALSE, 1)
    /\ UNCHANGED <<prog, phase, exitCode, angleMode, vars>>

IndexCls ==
    /\ prog = "index" /\ Accepting
    /\ lines' = lines + 1
    /\ last' = Handled("cls", <<<<Id("cls")>>>>, <<>>, NoNode, Undefined, "", FALSE, 1)
    /\ UNCHANGED <<prog, phase, exitCode, angleMode, commandMode, vars>>

\* 'exit' closes the interface, whose 'close' handler exits with status 0
IndexExit ==
    /\ prog = "index" /\ Accepting
    /\ phase' = "exited"
    /\ exitCode' = 0
    /\ lines' = lines + 1
    /\ last' = Handled("exit", <<<<Id("exit")>>>>, <<>>, NoNode, Undefined, "", FALSE, 0)
    /\ UNCHANGED <<prog, angleMode, commandMode, vars>>

\* the try block of the line handler, given what parsing and evaluating did
IndexEvaluated(line, res) ==
    /\ res.val # Beyond
    /\ last' = Handled("expression", line, res.text, res.node,
                       IF res.ok THEN res.val ELSE Undefined,
                       IF res.ok THEN "" ELSE "Error: " \o res.err,
                       FALSE, 1)

\* any other line: a command in command mode, else an expression
IndexLine(line) ==
    /\ prog = "index" /\ Accepting
    /\ line \notin {<<>>, <<<<Id("cls")>>>>, <<<<Id("exit")>>>>}
    /\ lines' = lines + 1
    /\ IF commandMode
       THEN /\ angleMode' = IndexExecuteCommand(line, angleMode)
            /\ last' = Handled("command", line, <<>>, NoNode, Undefined, "", FALSE, 1)
       ELSE /\ IndexEvaluated(line,
                      ParseAndEvaluate("index", angleMode, Flatten(line), vars))
            /\ angleMode' = angleMode
    /\ UNCHANGED <<prog, phase, exitCode, commandMode, vars>>

\* ------------------------------------------------------------------------
\* The input lines fed to the shells
\* ------------------------------------------------------------------------
BinaryOperators == {"+", "-", "*", "/", "%", "**"}
TableFunctions == {"sin", "cos", "tan", "abs", "log", "exp", "sqrt"}
OtherFunctions == {"foo", "constructor", "toString", "valueOf", "hasOwnProperty"}
Zero == Num(0)
Two == Num(2)

\* expressions without variable references
PlainExpressions ==
    {<<a>> : a \in {Zero, Two, Huge}}
    \cup {<<NumOf(Big(d))>> : d \in 0..3}
    \cup {<<P("-"), Two>>, <<P("-"), P("-"), Two>>, <<P("+"), Two>>, <<P("-"), Num(5)>>}
    \cup {<<a, P(op), b>> : a \in {Zero, Two}, op \in BinaryOperators, b \in {Zero, Two}}
    \cup {<<Huge, P(op), Huge>> : op \in {"-", "*", "/", "%"}}
    \cup {<<Two, P(op), P("-"), Two>> : op \in BinaryOperators}
    \cup {<<Num(5), P("-"), P("-"), Num(3)>>}
    \cup {<<Id(f), P("("), a, P(")")>> :
             f \in TableFunctions \cup OtherFunctions, a \in {Zero, Huge}}
    \cup {<<Id(f), P("("), P("-"), Two, P(")")>> : f \in {"abs", "sqrt"}}
    \cup {<<Id(f), P("("), Zero, P("-"), Two, P(")")>> : f \in {"abs", "sqrt", "log"}}
    \cup {<<Id("sin"), P("("), P(")")>>, <<Id("sin"), P("("), Num(90), P(")")>>}
    \cup {<<Id(f), P("("), Num(4), P(","), Two, P(")")>> : f \in {"sqrt", "foo"}}
    \cup {<<Id(f), P("("), Num(4), P(")")>> : f \in {"abs", "sqrt", "constructor"}}
    \cup {<<Two, P(";"), Num(3)>>, <<Two, P("+"), Two, P(";"), Num(3)>>,
          <<P(";")>>, <<Two, P("+")>>}

\* two binary operators in a row
PrecedenceExpressions ==
    {<<Num(t[1]), P(op1), Num(t[2]), P(op2), Num(t[3])>> :
        t \in {<<2, 3, 2>>, <<8, 4, 2>>}, op1 \in BinaryOperators,
        op2 \in BinaryOperators}
    \cup {<<Two, P("+"), Num(3), P("*"), Num(4)>>}

\* expressions with variable references
VariableExpressions ==
    {<<Var(v)>> : v \in {"x", "X", "y", "ans"}}
    \cup {<<P("-"), Var("x")>>}
    \cup {<<Var(v), P(op), Two>> : v \in {"x", "ans"}, op \in BinaryOperators}
    \cup {<<Var("x"), P("/"), Zero>>, <<Var("ans"), P("*"), Num(10)>>}

\* lines for the catch-all command that are commands
MashCommandLines ==
    {<<<<P(":"), Id("set")>>, <<Id(m)>>>> : m \in {"rad", "deg", "grad"}}
    \cup {<<<<P(":"), Id("var")>>, <<Id("x")>>, <<P("=")>>, v>> :
             v \in {<<Num(5)>>, <<P("-"), Num(2)>>, <<Id("abc")>>}}
    \cup {<<<<P(":"), Id("set")>>>>, <<<<P(":")>>>>,
          <<<<P(":"), Id("var")>>, <<Id("x")>>, <<Num(5)>>>>,
          <<<<Id("SET")>>, <<Id("RAD")>>>>, <<<<Id("foo")>>>>}

MashLines ==
    {Spaced(toks) : toks \in PlainExpressions \cup VariableExpressions
                               \cup PrecedenceExpressions}
    \cup MashCommandLines \cup {<<>>}

MashModes == {"rad", "deg", "grad", "RAD"}
MashNames == {"x", "X", "ans"}
MashValues == {<<Num(5)>>, <<P("-"), Num(2)>>, <<Id("abc")>>}

MashArgLines ==
    {<<>>} \cup {Spaced(toks) : toks \in
                    {<<Two, P("+"), Two>>, <<Two, P("/"), Zero>>, <<Var("ans")>>,
                     <<Var("y")>>, <<Id("sin"), P("("), Zero, P(")")>>}}
MashFlags == {<<>>, <<"--rad">>, <<"--deg">>, <<"--rad", "--deg">>}

IndexLines ==
    {Spaced(toks) : toks \in PlainExpressions}
    \cup {<<<<Id("set")>>, <<Id(m)>>>> : m \in {"ran", "deg", "rad"}}
    \cup {<<<<Id("SET")>>, <<Id("DEG")>>>>, <<<<Id("foo")>>>>}

Part001CommandLines ==
    {<<<<P(":"), Id("set")>>, <<Id(m)>>>> : m \in {"rad", "deg", "grad"}}
    \cup {<<<<P(":"), Id("set")>>>>, <<<<P(":")>>>>,
          <<<<Id("SET")>>, <<Id("RAD")>>>>, <<<<Id("set")>>, <<Id("rad")>>>>,
          <<<<Id("foo")>>>>}

Part001Lines ==
    {Spaced(toks) : toks \in PlainExpressions} \cup Part001CommandLines \cup {<<>>}

Part001ArgLines ==
    {<<>>} \cup {Spaced(toks) : toks \in
                    {<<Two, P("+"), Two>>, <<Two, P("/"), Zero>>, <<Two, P("+")>>,
                     <<Id("sin"), P("("), Zero, P(")")>>}}

\* ------------------------------------------------------------------------
\* Specification
\* ------------------------------------------------------------------------
Next ==
    \/ MashCh
    \/ MashCls
    \/ MashExit
    \/ \E mode \in MashModes : MashSet(mode)
    \/ \E name \in MashNames, value \in MashValues : MashVar(name, value)
    \/ \E line \in MashLines : MashCatch(line)
    \/ \E flags \in MashFlags, line \in MashArgLines : MashProcessArgs(flags, line)
    \/ Part001Ch
    \/ Part001Cls
    \/ Part001Exit
    \/ \E mode \in MashModes : Part001Set(mode)
    \/ \E line \in Part001Lines : Part001Catch(line)
    \/ \E flags \in MashFlags, line \in Part001ArgLines : Part001ProcessArgs(flags, line)
    \/ IndexToggle
    \/ IndexCls
    \/ IndexExit
    \/ \E line \in IndexLines : IndexLine(line)

Spec == Init /\ [][Next]_allVars

\* ------------------------------------------------------------------------
\* Properties
\* ------------------------------------------------------------------------
RECURSIVE SubNodes(_)
\* the nodes of a tree
SubNodes(node) ==
    {node} \cup UNION {SubNodes(node.kids[i]) : i \in 1..Len(node.kids)}

\* the last input was an expression that the shell parsed and evaluated
EvaluatedExpression ==
    last.handler \in {"expression", "args"} /\ last.node # NoNode

\* the value of node in the session that evaluated the last expression
ValueOf(node) == evaluateNode(prog, angleMode, node)

IsUnaryMinus(node) == node.type = "UnaryExpression" /\ node.operator = "-"

NegatesOperand(node, operand) ==
    operand.ok => ValueOf(node) = Returned(neg(operand.val))

\* C1: in the variable-aware shell every unary-minus node of a parsed tree,
\* wherever it sits, is tagged as negation and evaluates to the negation
\* of its operand's value.
C1_EveryUnaryMinusNegates ==
    (prog = "mash" /\ EvaluatedExpression) =>
        \A node \in SubNodes(last.node) :
            IsUnaryMinus(node) =>
                /\ node.isUnaryMinus
                /\ NegatesOperand(node, ValueOf(Argument(node)))

IsBinary(node, op) == node.type = "BinaryExpression" /\ node.operator = op

\* the last line printed val and reported no error
Printed(val) == last.printed = val /\ last.error = ""

\* the last line reported the thrown message msg and printed no result
Failed(msg) == last.printed = Undefined /\ last.error = "Error: " \o msg

SubtractsOperands(l, r) ==
    (l.ok /\ r.ok /\ ~isNaN(sub(l.val, r.val))) => Printed(sub(l.val, r.val))

\* C2: in the index.mjs shell 'a - b' evaluates to a minus b and '-a' to
\* the negation of a.
C2_SubtractionAndNegation ==
    (prog = "index" /\ EvaluatedExpression) =>
        /\ IsBinary(last.node, "-") =>
              SubtractsOperands(ValueOf(Left(last.node)), ValueOf(Right(last.node)))
        /\ (IsUnaryMinus(last.node) /\ ValueOf(Argument(last.node)).ok) =>
              Printed(neg(ValueOf(Argument(last.node)).val))

ZeroDivisor(node) ==
    /\ IsBinary(node, "/") \/ IsBinary(node, "%")
    /\ ValueOf(Left(node)).ok
    /\ ValueOf(Right(node)).ok
    /\ isZero(ValueOf(Right(node)).val)

ZeroDivisorError(node) ==
    IF node.operator = "/" THEN "Division by zero error" ELSE "Modulo by zero error"

\* C3: a '/' or '%' node whose operands evaluate and whose right operand is
\* zero fails with the division or modulo by zero error, whatever the left
\* operand; at the root the error is reported, nothing is printed and the
\* variables are unchanged.
C3_ZeroDivisorFails ==
    EvaluatedExpression =>
        /\ \A node \in SubNodes(last.node) :
              ZeroDivisor(node) => ValueOf(node) = Thrown(ZeroDivisorError(node))
        /\ ZeroDivisor(last.node) =>
              Failed(ZeroDivisorError(last.node)) /\ vars = last.pre.vars

C3_Witness ==
    /\ EvaluatedExpression
    /\ ZeroDivisor(last.node)
    /\ ValueOf(Left(last.node)).val = Fin(0)
    /\ last.error = "Error: Division by zero error"

\* C4: a call whose callee is not an own entry of the function table fails
\* with 'Unsupported function: <name>'.
C4_UnknownCalleeUnsupported ==
    (prog = "mash" /\ EvaluatedExpression /\ last.node.type = "CallExpression"
        /\ CalleeName(last.node) \notin TableFunctions) =>
        Failed("Unsupported function: " \o CalleeName(last.node))

IsSyntaxError(msg) ==
    msg \in {"Error: Syntax Error: Unexpected token",
             "Error: Syntax Error: Cannot read properties of undefined"}

OneExpressionStatement(parsed) ==
    parsed.ok /\ Len(parsed.body) = 1 /\ parsed.body[1].type = "ExpressionStatement"

\* C5: in the variable-aware shell an input that is not exactly one
\* expression statement is rejected with a Syntax Error: no part of it is
\* evaluated, so every line that is not rejected is one expression
\* statement.
C5_OnlyOneExpressionStatement ==
    (prog = "mash" /\ last.handler \in {"expression", "args"}
        /\ ~IsSyntaxError(last.error)
        /\ last.error \notin {"Error: Undefined variable: " \o v : v \in {"x", "X", "y"}})
        => OneExpressionStatement(parseScript(last.text))

\* C6: angleMode is always one of 'deg' and 'rad'.
C6_AngleModeDegOrRad == angleMode \in {"deg", "rad"}

\* the last line was an expression that succeeded
Succeeded == last.handler \in {"expression", "args"} /\ last.error = ""

AnsTimesTen == Spaced(<<Var("ans"), P("*"), Num(10)>>)

CaseFold(name) ==
    CASE name = "X" -> "x" [] name = "ANS" -> "ans" [] OTHER -> name

RECURSIVE FirstMissing(_, _, _)
\* the name of the first reference in toks from i on whose key is not in
\* keys, "" when there is none
FirstMissing(toks, i, keys) ==
    IF i > Len(toks) THEN ""
    ELSE IF toks[i].t = "var" /\ CaseFold(toks[i].s) \notin keys THEN toks[i].s
    ELSE FirstMissing(toks, i + 1, keys)

\* the last line is the single reference $name
IsReference(line) == Len(line) = 1 /\ Len(line[1]) = 1 /\ line[1][1].t = "var"

ResolvedAs(missing) ==
    IF missing # ""
    THEN /\ Failed("Undefined variable: " \o missing)
         /\ last.node = NoNode
         /\ last.text = Flatten(last.line)
         /\ vars = last.pre.vars
    ELSE /\ last.error \notin
              {"Error: Undefined variable: " \o v : v \in {"x", "X", "y", "ans"}}
         /\ IsReference(last.line) =>
              last.text = toString(last.pre.vars[CaseFold(last.line[1][1].s)])

\* C8: a reference resolves exactly when its lowercased name is a key of
\* vars, whatever its letter case; a reference to any other name makes the
\* input fail with 'Undefined variable: <name>' and nothing is parsed.
C8_VariableResolution ==
    (prog = "mash" /\ last.handler \in {"expression", "args"}) =>
        ResolvedAs(FirstMissing(Flatten(last.line), 1, DOMAIN last.pre.vars))

C8_Witness ==
    /\ prog = "mash" /\ Succeeded
    /\ last.line = Spaced(<<Var("X")>>)
    /\ "x" \in DOMAIN last.pre.vars
    /\ last.printed = last.pre.vars["x"]

\* the line "$name op k" with k a literal and name a key of vars
IsVariableOpLiteral(toks, keys) ==
    /\ Len(toks) = 3
    /\ toks[1].t = "var" /\ CaseFold(toks[1].s) \in keys
    /\ toks[2].t = "p" /\ toks[2].s \in BinaryOperators
    /\ toks[3].t = "num"

\* what the shell reports is what computing expected reports
Reports(expected) ==
    IF expected.ok THEN Printed(expected.val) ELSE Failed(expected.err)

\* v op k computed on the values themselves
ValueOpLiteral(v, op, k) ==
    EvaluateBinary("mash", BinaryExpression(op, NoNode, NoNode),
                   Returned(v), Returned(k))

\* C9: for every finite value v a variable or ans holds, negative ones
\* included, every binary operator op and literal k, "$x op k" yields
\* v op k.
C9_SubstitutionPreservesValue ==
    (prog = "mash" /\ last.handler = "expression"
        /\ IsVariableOpLiteral(Flatten(last.line), DOMAIN last.pre.vars)
        /\ last.pre.vars[CaseFold(Flatten(last.line)[1].s)].k = "fin") =>
        Reports(ValueOpLiteral(last.pre.vars[CaseFold(Flatten(last.line)[1].s)],
                               Flatten(last.line)[2].s,
                               Flatten(last.line)[3].v))

\* the name that identifies a node: its operator, or its callee
SourceName(node) ==
    IF node.type = "CallExpression" THEN CalleeName(node) ELSE node.operator

\* the operands of node evaluate and node's own result is NaN
ProducesNaN(node) ==
    /\ node.type \in {"UnaryExpression", "BinaryExpression", "CallExpression"}
    /\ \A i \in 1..Len(node.kids) :
          node.kids[i].type = "Identifier" \/ ValueOf(node.kids[i]).ok
    /\ ValueOf(node) \in {Thrown(NotANumber(op)) : op \in BinaryOperators \cup {""}}

\* C10: when the result of a node is NaN, the error names the operator of
\* the node or, for a call, the function.
C10_NaNErrorNamesSource ==
    (EvaluatedExpression /\ ProducesNaN(last.node)) =>
        Failed(NotANumber(SourceName(last.node)))

\* the last input was handled by a handler of the interactive shell other
\* than 'exit'
InteractiveInput == last.handler \notin {"none", "args", "exit"}

\* C11: in the variable-aware interactive shell every input line other than
\* 'exit' is handled to completion: no exception leaves its handler, the
\* handler's callback is invoked exactly once and the shell goes on.
C11_HandledToCompletion ==
    (prog = "mash" /\ InteractiveInput) =>
        /\ ~last.uncaught
        /\ last.callbacks = 1
        /\ phase = "shell"

\* what the one-shot path must report for an evaluation outcome: the value
\* and status 0, or the error and status 1
OneShotReports(res) ==
    IF res.ok
    THEN Printed(res.val) /\ exitCode = 0
    ELSE Failed(res.err) /\ exitCode = 1

\* C12: when arguments other than --rad/--deg are present their joined text
\* is evaluated, the process exits with status 0 exactly when parsing and
\* evaluation succeeded and with status 1 after reporting the error
\* otherwise, and no input line is ever handled.
C12_OneShotExitStatus ==
    (last.handler = "args") =>
        /\ last.line # <<>>
        /\ phase = "exited"
        /\ lines = 0
        /\ OneShotReports(ParseAndEvaluate(prog, angleMode, Flatten(last.line),
                                           last.pre.vars))

C12_Witness ==
    /\ prog = "mash"
    /\ last.handler = "args"
    /\ last.error = "Error: Division by zero error"
    /\ exitCode = 1

TrigFunctions == {"sin", "cos", "tan"}

\* no call inside the tree, so its value does not depend on the angle mode
CallFree(node) == \A inner \in SubNodes(node) : inner.type # "CallExpression"

\* the last input was evaluated and is a call f(argument) whose argument
\* holds no call
EvaluatedCall ==
    /\ EvaluatedExpression
    /\ last.node.type = "CallExpression"
    /\ Len(last.node.kids) = 2
    /\ CallFree(FirstArgument(last.node))

\* the call gives the same outcome in degree and in radian mode
SameInBothModes(node) ==
    evaluateNode(prog, "deg", node) = evaluateNode(prog, "rad", node)

\* sin, cos or tan of the value a itself
PlainTrig(f, a) ==
    CASE f = "sin" -> DecimalSin(a)
      [] f = "cos" -> DecimalCos(a)
      [] OTHER -> DecimalTan(a)

\* in radian mode the call is the function of the argument's own value
UnchangedInRadians(node, arg) ==
    arg.ok => evaluateNode(prog, "rad", node)
                 = CheckResult(node, Returned(PlainTrig(CalleeName(node), arg.val)))

\* C13: the degree conversion is applied to a call's argument exactly when
\* the function is sin, cos or tan and the mode is degree: a call of any
\* other function gives the same result in both modes, and in radian mode
\* sin, cos and tan get their argument unchanged.
C13_ConversionOnlyForTrig ==
    EvaluatedCall =>
        IF CalleeName(last.node) \in TrigFunctions
        THEN UnchangedInRadians(last.node,
                 evaluateNode(prog, "rad", FirstArgument(last.node)))
        ELSE SameInBothModes(last.node)

\* the last input was a single numeric literal, an integer of the window or
\* one from 2^53 on, and was evaluated
EvaluatedLiteral ==
    /\ last.handler \in {"expression", "args"}
    /\ Len(Flatten(last.line)) = 1
    /\ Flatten(last.line)[1].t = "num"
    /\ Flatten(last.line)[1].v.k \in {"fin", "big"}

\* C14: evaluating a numeric literal alone returns exactly the literal's
\* value, also for an integer above 2^53.
C14_LiteralIsExact ==
    EvaluatedLiteral => Printed(Flatten(last.line)[1].v)

\* the rank of a binary operator in standard precedence
Rank(op) ==
    CASE op = "**" -> 3
      [] op \in {"*", "/", "%"} -> 2
      [] OTHER -> 1

\* the arithmetic meaning of l op r on outcomes
Meaning(op, l, r) ==
    IF ~l.ok THEN l
    ELSE IF ~r.ok THEN r
    ELSE CheckResult(BinaryExpression(op, NoNode, NoNode),
           CASE op = "+" -> Returned(add(l.val, r.val))
             [] op = "-" -> Returned(sub(l.val, r.val))
             [] op = "*" -> Returned(mul(l.val, r.val))
             [] op = "**" -> Returned(pow(l.val, r.val))
             [] op = "/" -> IF isZero(r.val) THEN Thrown(DivisionByZero)
                            ELSE Returned(div(l.val, r.val))
             [] OTHER -> IF isZero(r.val) THEN Thrown(ModuloByZero)
                         ELSE Returned(mod(l.val, r.val)))

\* a op1 b op2 c grouped by rank, equal ranks left to right, '**' right to
\* left
Grouped(a, op1, b, op2, c) ==
    IF Rank(op2) > Rank(op1) \/ (op1 = "**" /\ op2 = "**")
    THEN Meaning(op1, Returned(a), Meaning(op2, Returned(b), Returned(c)))
    ELSE Meaning(op2, Meaning(op1, Returned(a), Returned(b)), Returned(c))

\* toks is literal operator literal operator literal
IsTwoOperators(toks) ==
    /\ Len(toks) = 5
    /\ \A i \in {1, 3, 5} : toks[i].t = "num"
    /\ \A i \in {2, 4} : toks[i].t = "p" /\ toks[i].s \in BinaryOperators

GroupedAsStandard(toks) ==
    IsTwoOperators(toks) =>
        Reports(Grouped(toks[1].v, toks[2].s, toks[3].v, toks[4].s, toks[5].v))

\* C15: in the variable-aware shell 'a op1 b op2 c' evaluates as standard
\* precedence and associativity group it, and the value of every binary
\* node is its operator applied to the values of its two subtrees.
C15_PrecedenceAndAssociativity ==
    (prog = "mash" /\ last.handler = "expression" /\ last.text = Flatten(last.line)) =>
        /\ GroupedAsStandard(last.text)
        /\ \A node \in SubNodes(last.node) :
              node.type = "BinaryExpression" =>
                  ValueOf(node) = Meaning(node.operator, ValueOf(Left(node)),
                                          ValueOf(Right(node)))

C15_Witness ==
    /\ prog = "mash"
    /\ last.line = Spaced(<<Two, P("**"), Num(3), P("**"), Two>>)
    /\ Printed(Fin(512))

\* val is a Decimal that is not NaN
IsNumericValue(val) == val.k \notin {"nan", "js", "undef"}

\* the value of node is computed from all of its operands
UsesAllOperands(node) ==
    CASE node.type = "CallExpression" -> Len(Arguments(node)) = 1
      [] node.type = "BinaryExpression" ->
            ValueOf(node) = Meaning(node.operator, ValueOf(Left(node)),
                                    ValueOf(Right(node)))
      [] OTHER -> TRUE

\* C16: in the variable-aware shell an evaluation that returns, returns a
\* numeric value that is not NaN and in which every node's value is
\* computed from all the operands of the node.
C16_ValueOfWholeExpression ==
    (prog = "mash" /\ EvaluatedExpression /\ Succeeded) =>
        /\ IsNumericValue(last.printed)
        /\ \A node \in SubNodes(last.node) : UsesAllOperands(node)

\* every variable other than ans is what it was before the last input
OtherVariablesUnchanged ==
    /\ DOMAIN vars = DOMAIN last.pre.vars
    /\ \A name \in DOMAIN vars \ {"ans"} : vars[name] = last.pre.vars[name]

\* C17: handling an expression line leaves angleMode, commandMode and every
\* variable other than ans unchanged, and when it fails it leaves ans
\* unchanged too.
C17_ExpressionChangesOnlyAns ==
    (prog = "mash" /\ last.handler = "expression") =>
        /\ angleMode = last.pre.angleMode
        /\ commandMode = last.pre.commandMode
        /\ OtherVariablesUnchanged
        /\ last.error # "" => vars = last.pre.vars

C17_Witness ==
    /\ prog = "mash" /\ last.handler = "expression"
    /\ last.error = "Error: Division by zero error"
    /\ last.pre.vars["ans"] = Fin(4)
    /\ vars["ans"] = Fin(4)

\* the last input was a line of the interactive shell typed while
\* commandMode was false
LineOutsideCommandMode ==
    /\ last.handler \notin {"none", "args"}
    /\ ~last.pre.commandMode

\* the last input neither changed angleMode nor assigned a variable other
\* than ans
NoSetNoVar ==
    /\ angleMode = last.pre.angleMode
    /\ OtherVariablesUnchanged

\* C18 as stated: while commandMode is false no input line changes
\* angleMode or assigns a variable other than ans.
C18_SetAndVarOnlyInCommandMode ==
    LineOutsideCommandMode => NoSetNoVar

\* C18 as amended: while commandMode is false no input line other than one
\* that begins with ':' changes angleMode or assigns a variable other than
\* ans.
C18_SetAndVarNeedCommandModeOrColon ==
    (LineOutsideCommandMode /\ ~StartsWithColon(last.line)) => NoSetNoVar

C18_Witness ==
    /\ prog = "mash"
    /\ LineOutsideCommandMode
    /\ last.line = <<<<Id("set")>>, <<Id("rad")>>>>
    /\ last.error = "Error: set command can only be used in command mode"
    /\ angleMode = "deg"

\* the last input was the toggle of the command mode
IsToggle == last.handler \in {"ch", "toggle"}

\* commandMode is false at the start and is flipped by the toggle and by
\* nothing else
OnlyToggleFlips ==
    IF last.handler = "none" THEN ~commandMode
    ELSE (commandMode # last.pre.commandMode) <=> IsToggle

\* the last input was typed while commandMode was true
LineInCommandMode ==
    /\ last.handler \notin {"none", "args"}
    /\ last.pre.commandMode

\* the last input was not parsed or evaluated and printed no result
NothingEvaluated ==
    /\ last.node = NoNode
    /\ last.text = <<>>
    /\ last.printed = Undefined

AnsUnchanged ==
    "ans" \in DOMAIN last.pre.vars =>
        ("ans" \in DOMAIN vars /\ vars["ans"] = last.pre.vars["ans"])

\* the line 'var ans = <value>', in any letter case of the name
IsVarAns(line) ==
    /\ Len(line) = 4
    /\ WordText(line[1]) = "var"
    /\ CaseFold(WordText(line[2])) = "ans"

\* C19 as stated: commandMode starts false and only the toggle flips it;
\* while it is true no line is parsed or evaluated, no result is printed
\* and ans does not change.
C19_CommandModeEvaluatesNothing ==
    /\ OnlyToggleFlips
    /\ LineInCommandMode => (NothingEvaluated /\ AnsUnchanged)

\* C19 as amended: commandMode starts false and only the toggle flips it;
\* while it is true no line is parsed or evaluated and no result is
\* printed, and ans changes only by a 'var ans = <value>' command.
C19_CommandModeEvaluatesNothingButVarAns ==
    /\ OnlyToggleFlips
    /\ LineInCommandMode => (NothingEvaluated /\ (IsVarAns(last.line) \/ AnsUnchanged))

C19_Witness ==
    /\ prog = "mash"
    /\ LineInCommandMode
    /\ last.handler = "command"
    /\ last.line = <<<<Id("SET")>>, <<Id("RAD")>>>>
    /\ last.pre.angleMode = "deg" /\ angleMode = "rad"
    /\ NothingEvaluated /\ AnsUnchanged

====
